---------------------------- MODULE Spec2Model ----------------------------
(***************************************************************************)
(* A model of primify's parallel next-prime search                         *)
(* (src/src/primify/prime_finder.py, class NextPrimeFinder) and of the     *)
(* image-to-prime glue around it (primify_base.py, base.py).               *)
(*                                                                         *)
(* The search is modelled at the granularity of the inter-process          *)
(* communication it performs: reading and setting the manager's Event,     *)
(* taking a chunk of tasks off the pool's queue, and the coordinator's     *)
(* starmap call and return.  Local computation between two such steps is   *)
(* folded into the step that follows it.                                   *)
(***************************************************************************)
EXTENDS Integers, Naturals, Sequences, FiniteSets, TLC

(***************************************************************************)
(* Bounds of the model.                                                    *)
(***************************************************************************)
\* starts 1..MaxStart are explored (plus the starts of GapStarts)
MaxStart == 8
\* worker counts 0..MaxWorkers are explored
MaxWorkers == 2
\* images of 1..MaxPixels pixels are explored
MaxPixels == 3
\* image sizes up to MaxDim x MaxDim and pixel limits up to MaxDim are explored
MaxDim == 12

\* largest start value given to the generator of primify/base.py
MaxBaseStart == 40

\* largest number of values drawn from that generator
MaxYield == 3

(***************************************************************************)
(* Program constants.                                                      *)
(***************************************************************************)
\* the value a worker returns when it reports no prime (Python's None)
None == 0
\* the value find_next_prime returns when no result is a prime
NotFound == -1
\* the least number of primality tests in one batch
MinBatch == 10
\* multiprocessing.Pool cuts a map into about 4 chunks per worker
ChunksPerWorker == 4

\* Starts just after the prime 1327, whose gap to the next prime 1361 holds
\* ten candidates (1331 .. 1357), none of them prime: a whole batch fails.
GapStarts == {1328}

\* A start above e^11 (59874.1...), for which int(math.log(value)) is 11 and a
\* batch holds eleven candidates; it lies just after the prime 60041, whose
\* gap to the next prime 60077 holds eleven candidates (60043 .. 60073).
LogStarts == {60042}

Starts == (1 .. MaxStart) \cup GapStarts \cup LogStarts

Workers == 1 .. MaxWorkers

(***************************************************************************)
(* The primality oracle (sympy.isprime): exact primality.                  *)
(***************************************************************************)
\* the largest k in lo .. hi with k * k <= n, by bisection
RECURSIVE SqrtBetween(_, _, _)
SqrtBetween(n, lo, hi) ==
    IF lo >= hi THEN lo
    ELSE LET mid == (lo + hi + 1) \div 2
         IN IF mid * mid <= n THEN SqrtBetween(n, mid, hi)
            ELSE SqrtBetween(n, lo, mid - 1)

isprime(n) == n > 1 /\ \A d \in 2 .. SqrtBetween(n, 1, n) : n % d # 0

(***************************************************************************)
(* int(math.log(value)): the largest k with e^k <= value.  ExpFloor[k] is  *)
(* floor(e^k); e^k is irrational, so e^k <= value iff floor(e^k) < value.  *)
(***************************************************************************)
ExpFloor == <<2, 7, 20, 54, 148, 403, 1096, 2980, 8103, 22026, 59874, 162754>>

IntLog(v) == Cardinality({k \in 1 .. Len(ExpFloor) : ExpFloor[k] < v})

Max2(a, b) == IF a >= b THEN a ELSE b

\* NextPrimeFinder.__init__: expected_n_primality_tests
ExpectedTests(v) == Max2(MinBatch, IntLog(v))

(***************************************************************************)
(* NextPrimeFinder.prime_candidates: the generator.  The cursor is the     *)
(* next integer the generator will examine.                                *)
(***************************************************************************)
IsCandidateOdd(c) == c % 2 = 1

\* the filter `candidate % 6 in [1, 5]`
IsCandidate(c) == c % 6 \in {1, 5}

NextCursorStuck(c) == c

\* `candidate += 1` on resuming after a yield
NextCursor(c) == c + 1

\* the first n values the generator yields from cursor c (islice)
RECURSIVE Take(_, _)
Take(c, n) ==
    IF n = 0 THEN <<>>
    ELSE IF IsCandidate(c) THEN <<c>> \o Take(NextCursor(c), n - 1)
    ELSE Take(c + 1, n)

(***************************************************************************)
(* multiprocessing.Pool.starmap: the batch is cut into chunks, each chunk  *)
(* is one task, a worker runs the calls of its chunk one after another.    *)
(***************************************************************************)
ChunkSize(len, w) ==
    IF len % (ChunksPerWorker * w) = 0
    THEN len \div (ChunksPerWorker * w)
    ELSE len \div (ChunksPerWorker * w) + 1

NChunks(len, w) ==
    IF len = 0 THEN 0
    ELSE (len + ChunkSize(len, w) - 1) \div ChunkSize(len, w)

ChunkFirst(k, len, w) == (k - 1) * ChunkSize(len, w) + 1

ChunkLast(k, len, w) ==
    IF k * ChunkSize(len, w) < len THEN k * ChunkSize(len, w) ELSE len

VARIABLES
    value,          \* self.value
    n_workers,      \* self.n_workers
    expected_n_primality_tests,
    pc,             \* where the coordinator (find_next_prime) is
    pool,           \* "none", "open", "terminated"
    manager,        \* TRUE once mp.Manager() and its Event exist
    found_prime,    \* the Event's flag
    candidate,      \* the generator's cursor
    batch,          \* the candidates of the round in flight
    result,         \* the round's results, one per candidate of the batch
    finished,       \* indices of the batch whose call has returned (or was
                    \* abandoned when an earlier call of its chunk raised)
    nextChunk,      \* the next chunk of the task queue
    wphase,         \* per worker: "idle", "check", "test"
    wchunk,         \* per worker: the chunk it runs (0: none)
    wpos,           \* per worker: the index in the batch of its current call
    results,        \* the coordinator's set `results`
    ret,            \* the value find_next_prime returned
    tested,         \* history: the candidates passed to isprime
    yielded,        \* history: everything prime_candidates yielded, in order
    rounds,         \* history: the number of starmap calls
    run,            \* which finder on this value this is (0: none yet)
    prev,           \* what the previous finder on this value returned
    faulty,         \* the candidates on which the oracle raises (none in Spec)
    raised,         \* TRUE once a call of the round in flight has raised
    \* PrimeImage (primify_base.py) and PrimeImage.get_prime (base.py)
    pixels,         \* the quantised levels im.getdata() gives once prepared
    imwidth,        \* the width of the prepared image
    n_resized,      \* history: how often _resize has run
    n_enhanced,     \* history: how often _enhance has run
    last_call,      \* history: the method of PrimeImage called last
    width,          \* self.width (0: not set)
    CONVERTED_IMAGE_DATA,
    NUMBER,         \* self.NUMBER (0: not set)
    prime,          \* self.prime (0: not set)
    prime_string,   \* self.prime_string, as its lines
    written,        \* what create_prime printed to the output file
    flag_numberised,
    flag_primed,
    raw_image_number,   \* base.py: _get_raw_number().value (0: none)
    next_prime,         \* base.py: get_prime().value (0: none)
    \* PrimeImage.resize_for_pixel_limit (base.py)
    x,              \* image.size[0]
    y,              \* image.size[1]
    max_pixels,
    x_scaled,
    y_scaled,
    rpc,            \* "input", "resized", "ZeroDivisionError", "ValueError"
    \* NextPrimeFinder.prime_candidates of base.py
    base_value,     \* self.value
    base_candidate, \* the generator's local `candidate`
    base_yielded    \* history: what the generator yielded, in order

imageVars == <<pixels, imwidth, n_resized, n_enhanced, last_call, width, CONVERTED_IMAGE_DATA,
               NUMBER, prime, prime_string, written, flag_numberised,
               flag_primed, raw_image_number, next_prime>>

resizeVars == <<x, y, max_pixels, x_scaled, y_scaled, rpc>>

finderVars == <<value, n_workers, expected_n_primality_tests, pc, pool,
                manager, found_prime, candidate, batch, result, finished,
                nextChunk, wphase, wchunk, wpos, results, ret, tested,
                yielded, rounds, run, prev, faulty, raised>>

genVars == <<base_value, base_candidate, base_yielded>>

vars == <<finderVars, imageVars, resizeVars, genVars>>

Idle == [w \in Workers |-> "idle"]
Zero == [w \in Workers |-> 0]

FinderFresh(v) ==
    /\ value = v
    /\ n_workers = 0
    /\ expected_n_primality_tests = 0
    /\ pc = "start"
    /\ pool = "none"
    /\ manager = FALSE
    /\ found_prime = FALSE
    /\ candidate = 0
    /\ batch = <<>>
    /\ result = <<>>
    /\ finished = {}
    /\ nextChunk = 1
    /\ wphase = Idle
    /\ wchunk = Zero
    /\ wpos = Zero
    /\ results = {}
    /\ ret = None
    /\ tested = {}
    /\ yielded = <<>>
    /\ rounds = 0
    /\ run = 0
    /\ prev = None
    /\ raised = FALSE

NoImage ==
    /\ pixels = <<>>
    /\ imwidth = 0
    /\ n_resized = 0
    /\ n_enhanced = 0
    /\ last_call = "none"
    /\ width = 0
    /\ CONVERTED_IMAGE_DATA = <<>>
    /\ NUMBER = 0
    /\ prime = 0
    /\ prime_string = <<>>
    /\ written = <<>>
    /\ flag_numberised = FALSE
    /\ flag_primed = FALSE
    /\ raw_image_number = 0
    /\ next_prime = 0

NoResize ==
    /\ x = 0
    /\ y = 0
    /\ max_pixels = 0
    /\ x_scaled = 0
    /\ y_scaled = 0
    /\ rpc = "none"

NoGenerator ==
    /\ base_value = 0
    /\ base_candidate = 0
    /\ base_yielded = <<>>

NoFinder == FinderFresh(0) /\ faulty = {}

Init ==
    /\ \E v \in Starts : FinderFresh(v)
    /\ faulty = {}
    /\ NoImage
    /\ NoResize
    /\ NoGenerator
(***************************************************************************)
(* NextPrimeFinder.__init__(value, n).  A second finder may be built on    *)
(* the same value once the first has returned; it shares nothing with the  *)
(* first but the value.                                                    *)
(***************************************************************************)
Construct(n) ==
    /\ \/ pc = "start"
       \/ pc = "done" /\ run = 1 /\ n >= 1
    /\ n_workers' = n
    /\ expected_n_primality_tests' = ExpectedTests(value)
    /\ pc' = "new"
    /\ pool' = "none"
    /\ manager' = FALSE
    /\ found_prime' = FALSE
    /\ candidate' = value
    /\ batch' = <<>>
    /\ result' = <<>>
    /\ finished' = {}
    /\ nextChunk' = 1
    /\ wphase' = Idle
    /\ wchunk' = Zero
    /\ wpos' = Zero
    /\ results' = {}
    /\ ret' = None
    /\ tested' = {}
    /\ yielded' = <<>>
    /\ rounds' = 0
    /\ run' = run + 1
    /\ prev' = ret
    /\ raised' = FALSE
    /\ UNCHANGED <<value, imageVars, resizeVars, genVars, faulty>>

PoolSizeAny(n) == TRUE

\* mp.Pool(processes) raises ValueError unless processes >= 1
PoolSizeValid(n) == n >= 1

\* find_next_prime, up to the loop: the pool, the manager, the Event, the
\* (lazy) candidate iterator and the empty result set
Enter ==
    /\ pc = "new"
    /\ IF PoolSizeValid(n_workers)
       THEN /\ pc' = "loop"
            /\ pool' = "open"
            /\ manager' = TRUE
       ELSE /\ pc' = "error"
            /\ UNCHANGED <<pool, manager>>
    /\ UNCHANGED <<value, n_workers, expected_n_primality_tests, found_prime,
                   candidate, batch, result, finished, nextChunk, wphase,
                   wchunk, wpos, results, ret, tested, yielded, rounds, run,
                   prev, imageVars, resizeVars, genVars, faulty, raised>>

LoopContinuesAlways == TRUE

\* the loop condition `not found_prime.is_set()`
LoopContinues == ~found_prime

CursorRestart(c, b) == c

\* where the generator stands once islice has pulled the batch b from cursor c
CursorAfter(c, b) == IF b = <<>> THEN c ELSE NextCursor(b[Len(b)])

\* `while not found_prime.is_set()` is true: pool.starmap is called on the
\* next expected_n_primality_tests candidates
Dispatch ==
    /\ pc = "loop"
    /\ LoopContinues
    /\ LET b == Take(candidate, expected_n_primality_tests)
       IN /\ batch' = b
          /\ result' = [i \in 1 .. Len(b) |-> None]
          /\ yielded' = yielded \o b
          /\ candidate' = CursorAfter(candidate, b)
    /\ finished' = {}
    /\ nextChunk' = 1
    /\ rounds' = rounds + 1
    /\ pc' = "starmap"
    /\ UNCHANGED <<value, n_workers, expected_n_primality_tests, pool,
                   manager, found_prime, wphase, wchunk, wpos, results, ret,
                   tested, run, prev, imageVars, resizeVars, genVars, faulty, raised>>

\* a worker process takes the next chunk off the task queue
WorkerTake(w) ==
    /\ pc = "starmap"
    /\ w <= n_workers
    /\ wphase[w] = "idle"
    /\ nextChunk <= NChunks(Len(batch), n_workers)
    /\ wchunk' = [wchunk EXCEPT ![w] = nextChunk]
    /\ wpos' = [wpos EXCEPT ![w] = ChunkFirst(nextChunk, Len(batch), n_workers)]
    /\ wphase' = [wphase EXCEPT ![w] = "check"]
    /\ nextChunk' = nextChunk + 1
    /\ UNCHANGED <<value, n_workers, expected_n_primality_tests, pc, pool,
                   manager, found_prime, candidate, batch, result, finished,
                   results, ret, tested, yielded, rounds, run, prev, imageVars, resizeVars, genVars, faulty, raised>>

\* the call at wpos[w] has returned r: go on in the chunk, or become idle
Returned(w, r) ==
    /\ result' = [result EXCEPT ![wpos[w]] = r]
    /\ finished' = finished \cup {wpos[w]}
    /\ IF wpos[w] < ChunkLast(wchunk[w], Len(batch), n_workers)
       THEN /\ wpos' = [wpos EXCEPT ![w] = wpos[w] + 1]
            /\ wphase' = [wphase EXCEPT ![w] = "check"]
            /\ UNCHANGED wchunk
       ELSE /\ wpos' = [wpos EXCEPT ![w] = 0]
            /\ wphase' = [wphase EXCEPT ![w] = "idle"]
            /\ wchunk' = [wchunk EXCEPT ![w] = 0]

FlagIsSetAlways == TRUE

FlagIsSetNever == FALSE

\* found_prime.is_set() as a worker reads it
FlagIsSet == found_prime

\* is_prime_worker: `if not found_prime.is_set()`
WorkerCheck(w) ==
    /\ wphase[w] = "check"
    /\ IF FlagIsSet
       THEN /\ Returned(w, None)
       ELSE /\ wphase' = [wphase EXCEPT ![w] = "test"]
            /\ UNCHANGED <<result, finished, wpos, wchunk>>
    /\ UNCHANGED <<value, n_workers, expected_n_primality_tests, pc, pool,
                   manager, found_prime, candidate, batch, nextChunk, results,
                   ret, tested, yielded, rounds, run, prev, imageVars, resizeVars, genVars, faulty, raised>>

WorkerResultUntested(c) == c

\* is_prime_worker: what the call returns once the flag was seen unset
WorkerResult(c) == IF isprime(c) THEN c ELSE None

SetsFlagNever(r) == FALSE

SetsFlagAlways(r) == TRUE

\* is_prime_worker: found_prime.set() runs exactly when a candidate is returned
SetsFlag(r) == r # None

RaisesSwallowed(c) == FALSE

\* isprime(candidate) raises instead of answering
Raises(c) == c \in faulty

\* the call at wpos[w] raised: the rest of the chunk is not run, the chunk's
\* task ends with the exception, the worker takes the next task
ChunkFailed(w) ==
    /\ finished' = finished \cup
                     (wpos[w] .. ChunkLast(wchunk[w], Len(batch), n_workers))
    /\ wpos' = [wpos EXCEPT ![w] = 0]
    /\ wphase' = [wphase EXCEPT ![w] = "idle"]
    /\ wchunk' = [wchunk EXCEPT ![w] = 0]
    /\ UNCHANGED result

\* is_prime_worker: `if isprime(candidate): found_prime.set(); return candidate`
WorkerTest(w) ==
    /\ wphase[w] = "test"
    /\ LET c == batch[wpos[w]]
           r == WorkerResult(c)
       IN /\ tested' = tested \cup {c}
          /\ IF Raises(c)
             THEN /\ raised' = TRUE
                  /\ ChunkFailed(w)
                  /\ UNCHANGED found_prime
             ELSE /\ found_prime' = (found_prime \/ SetsFlag(r))
                  /\ Returned(w, r)
                  /\ UNCHANGED raised
    /\ UNCHANGED <<value, n_workers, expected_n_primality_tests, pc, pool,
                   manager, candidate, batch, nextChunk, results, ret,
                   yielded, rounds, run, prev, imageVars, resizeVars, genVars,
                   faulty>>

BatchCompleteEarly == finished # {}

BatchCompleteNever == finished = 1 .. (Len(batch) + 1)

\* starmap's result is ready once every task of the batch has ended
BatchComplete == finished = 1 .. Len(batch)

\* pool.starmap returns once every call of the batch has; results |= set(result).
\* If a call raised, starmap raises its exception instead: it leaves
\* find_next_prime through the `with`, whose exit terminates the pool.
StarmapReturn ==
    /\ pc = "starmap"
    /\ BatchComplete
    /\ IF raised
       THEN /\ pc' = "raised"
            /\ pool' = "terminated"
            /\ UNCHANGED results
       ELSE /\ pc' = "loop"
            /\ results' = results \cup {result[i] : i \in 1 .. Len(batch)}
            /\ UNCHANGED pool
    /\ UNCHANGED <<value, n_workers, expected_n_primality_tests,
                   manager, found_prime, candidate, batch, result, finished,
                   nextChunk, wphase, wchunk, wpos, ret, tested, yielded,
                   rounds, run, prev, imageVars, resizeVars, genVars, faulty,
                   raised>>

\* `while not found_prime.is_set()` is false: pool.terminate()
Terminate ==
    /\ pc = "loop"
    /\ ~LoopContinues
    /\ pool' = "terminated"
    /\ pc' = "select"
    /\ UNCHANGED <<value, n_workers, expected_n_primality_tests, manager,
                   found_prime, candidate, batch, result, finished, nextChunk,
                   wphase, wchunk, wpos, results, ret, tested, yielded,
                   rounds, run, prev, imageVars, resizeVars, genVars, faulty, raised>>

\* `for result in results: if result is not None: return result`: the values
\* the loop can return.  The iteration order of a set is unspecified, so any
\* non-None member can come first.
FirstResults(s) == {r \in s : r # None}

\* the selection loop and the final `return -1`
Select ==
    /\ pc = "select"
    /\ IF FirstResults(results) # {}
       THEN ret' \in FirstResults(results)
       ELSE ret' = NotFound
    /\ pc' = "done"
    /\ UNCHANGED <<value, n_workers, expected_n_primality_tests, pool,
                   manager, found_prime, candidate, batch, result, finished,
                   nextChunk, wphase, wchunk, wpos, results, tested, yielded,
                   rounds, run, prev, imageVars, resizeVars, genVars, faulty, raised>>

Next ==
    \/ \E n \in 0 .. MaxWorkers : Construct(n)
    \/ Enter
    \/ Dispatch
    \/ \E w \in Workers : WorkerTake(w)
    \/ \E w \in Workers : WorkerCheck(w)
    \/ \E w \in Workers : WorkerTest(w)
    \/ StarmapReturn
    \/ Terminate
    \/ Select

Spec == Init /\ [][Next]_vars

(***************************************************************************)
(* The NextPrimeFinder class of primify/base.py: its constructor and the   *)
(* prime_candidates generator, driven by next().                           *)
(***************************************************************************)
RECURSIVE BaseSkip(_)
\* the `else: candidate += 1` branch, repeated until the filter accepts
BaseSkip(c) == IF c % 6 \in {1, 5} THEN c ELSE BaseSkip(c + 1)

\* where the generator body resumes after `yield candidate`: the loop comes
\* round with candidate as it was
BaseResume(c) == c

base_NextPrimeFinder(v) ==
    /\ base_value = 0
    /\ base_value' = v
    /\ base_candidate' = v
    /\ base_yielded' = <<>>
    /\ UNCHANGED <<finderVars, imageVars, resizeVars>>

\* next() on the generator: run the loop up to the next `yield`
base_next ==
    /\ base_value # 0
    /\ Len(base_yielded) < MaxYield
    /\ LET c == BaseSkip(base_candidate)
       IN /\ base_yielded' = Append(base_yielded, c)
          /\ base_candidate' = BaseResume(c)
    /\ UNCHANGED <<base_value, finderVars, imageVars, resizeVars>>

NextGen ==
    \/ \E v \in 1 .. MaxBaseStart : base_NextPrimeFinder(v)
    \/ base_next

InitGen == NoFinder /\ NoImage /\ NoResize /\ NoGenerator

SpecGen == InitGen /\ [][NextGen]_vars

(***************************************************************************)
(* The search under fair scheduling: as long as the coordinator or some    *)
(* worker process can take a step of the search, one of them eventually    *)
(* does; nothing obliges a caller to build a finder.                       *)
(***************************************************************************)
SearchStep ==
    \/ Enter
    \/ Dispatch
    \/ \E w \in Workers : WorkerTake(w)
    \/ \E w \in Workers : WorkerCheck(w)
    \/ \E w \in Workers : WorkerTest(w)
    \/ StarmapReturn
    \/ Terminate
    \/ Select

Fairness == WF_vars(SearchStep)

FairStarts == {MaxStart} \cup GapStarts

InitFair ==
    /\ \E v \in FairStarts : FinderFresh(v)
    /\ faulty = {}
    /\ NoImage
    /\ NoResize
    /\ NoGenerator

SpecFair == InitFair /\ [][Next]_vars /\ Fairness

(***************************************************************************)
(* The search with an oracle that raises on one candidate: the first, the  *)
(* third or the eleventh of the stream.                                    *)
(***************************************************************************)
FailStarts == {1, MaxStart} \cup GapStarts

FaultyOf(v) ==
    LET q == Take(v, MinBatch + 1)
    IN {{q[1]}, {q[3]}, {q[Len(q)]}}

InitFail ==
    /\ \E v \in FailStarts : FinderFresh(v) /\ faulty \in FaultyOf(v)
    /\ NoImage
    /\ NoResize
    /\ NoGenerator

SpecFail == InitFail /\ [][Next]_vars

(***************************************************************************)
(* sympy.nextprime(n): the smallest prime greater than n.                  *)
(***************************************************************************)
RECURSIVE PrimeFrom(_)
PrimeFrom(n) == IF isprime(n) THEN n ELSE PrimeFrom(n + 1)

nextprimeInclusive(n) == PrimeFrom(n)

nextprime(n) == PrimeFrom(n + 1)

(***************************************************************************)
(* PrimeImage of primify_base.py.  Loading, resizing and quantising the    *)
(* image are Pillow's; what the object sees of them is the sequence of     *)
(* quantised levels (0 .. 4) of the prepared image and its width.          *)
(***************************************************************************)
\* self.ORDERED_DIGITS, digits from bright to dark
ORDERED_DIGITS == <<1, 7, 3, 9, 8>>

\* ORDERED_DIGITS[-i] with Python's indexing: -0 is the first element, -i the
\* i-th from the end
OrderedDigitNeg(i) ==
    IF i = 0 THEN ORDERED_DIGITS[1]
    ELSE ORDERED_DIGITS[Len(ORDERED_DIGITS) - i + 1]

\* BRIGHTNESS_ORDERED_DIGITS[brightness_index] of base.py
BrightnessDigit(i) == ORDERED_DIGITS[i + 1]

Levels == 0 .. (Len(ORDERED_DIGITS) - 1)

\* int("".join(digits))
RECURSIVE DigitsToInt(_)
DigitsToInt(d) ==
    IF d = <<>> THEN 0
    ELSE 10 * DigitsToInt(SubSeq(d, 1, Len(d) - 1)) + d[Len(d)]

\* str(n) for n >= 0, as its digits
RECURSIVE IntToDigits(_)
IntToDigits(n) ==
    IF n < 10 THEN <<n>> ELSE IntToDigits(n \div 10) \o <<n % 10>>

\* the digits with a line break before every index that is a positive
\* multiple of w: the lines of the string
RECURSIVE Lines(_, _)
Lines(d, w) ==
    IF Len(d) <= w THEN <<d>>
    ELSE <<SubSeq(d, 1, w)>> \o Lines(SubSeq(d, w + 1, Len(d)), w)

Images == UNION {[1 .. n -> Levels] : n \in 1 .. MaxPixels}

InitImage ==
    /\ pixels \in Images
    /\ imwidth \in {w \in 1 .. Len(pixels) : Len(pixels) % w = 0}
    /\ n_resized = 0
    /\ n_enhanced = 0
    /\ last_call = "none"
    /\ width = 0
    /\ CONVERTED_IMAGE_DATA = <<>>
    /\ NUMBER = 0
    /\ prime = 0
    /\ prime_string = <<>>
    /\ written = <<>>
    /\ flag_numberised = FALSE
    /\ flag_primed = FALSE
    /\ raw_image_number = 0
    /\ next_prime = 0

\* the state after numberise(), as a record of the fields it may change
NumberisesAgain == FALSE

\* numberise: `if self.flag_numberised: return 0`
AlreadyNumberised == flag_numberised

Numberised ==
    IF AlreadyNumberised
    THEN [n_resized |-> n_resized, n_enhanced |-> n_enhanced, width |-> width,
          data |-> CONVERTED_IMAGE_DATA, number |-> NUMBER]
    ELSE LET data == [i \in 1 .. Len(pixels) |-> OrderedDigitNeg(pixels[i])]
         IN [n_resized |-> n_resized + 1, n_enhanced |-> n_enhanced + 1,
             width |-> imwidth,
             data |-> data, number |-> DigitsToInt(data)]

\* the state after find_next_prime(): numberise(), then nextprime unless
\* flag_primed
Primed == IF flag_primed THEN prime ELSE nextprime(Numberised.number)

SetNumberised ==
    /\ n_resized' = Numberised.n_resized
    /\ n_enhanced' = Numberised.n_enhanced
    /\ width' = Numberised.width
    /\ CONVERTED_IMAGE_DATA' = Numberised.data
    /\ NUMBER' = Numberised.number
    /\ flag_numberised' = TRUE

SetPrimed ==
    /\ SetNumberised
    /\ prime' = Primed
    /\ flag_primed' = TRUE

numberise ==
    /\ last_call' = "numberise"
    /\ SetNumberised
    /\ UNCHANGED <<pixels, imwidth, prime, prime_string, written, flag_primed,
                   raw_image_number, next_prime, finderVars, resizeVars, genVars>>

\* show_number numberises if need be and returns a string
show_number ==
    /\ last_call' = "show_number"
    /\ SetNumberised
    /\ UNCHANGED <<pixels, imwidth, prime, prime_string, written, flag_primed,
                   raw_image_number, next_prime, finderVars, resizeVars, genVars>>

find_next_prime ==
    /\ last_call' = "find_next_prime"
    /\ SetPrimed
    /\ UNCHANGED <<pixels, imwidth, prime_string, written, raw_image_number,
                   next_prime, finderVars, resizeVars, genVars>>

get_prime ==
    /\ last_call' = "get_prime"
    /\ SetPrimed
    /\ prime_string' = Lines(IntToDigits(Primed), Numberised.width)
    /\ UNCHANGED <<pixels, imwidth, written, raw_image_number, next_prime,
                   finderVars, resizeVars, genVars>>

create_prime ==
    /\ last_call' = "create_prime"
    /\ SetPrimed
    /\ prime_string' = Lines(IntToDigits(Primed), Numberised.width)
    /\ written' = prime_string'
    /\ UNCHANGED <<pixels, imwidth, raw_image_number, next_prime, finderVars,
                   resizeVars, genVars>>

\* PrimeImage.get_prime of base.py: the raw number of the image, then
\* nextprime of it
base_get_prime ==
    /\ raw_image_number' =
           DigitsToInt([i \in 1 .. Len(pixels) |-> BrightnessDigit(pixels[i])])
    /\ next_prime' = nextprime(raw_image_number')
    /\ UNCHANGED <<pixels, imwidth, n_resized, n_enhanced, last_call, width,
                   CONVERTED_IMAGE_DATA,
                   NUMBER, prime, prime_string, written, flag_numberised,
                   flag_primed, finderVars, resizeVars, genVars>>

NextImage ==
    \/ numberise
    \/ show_number
    \/ find_next_prime
    \/ get_prime
    \/ create_prime
    \/ base_get_prime

InitOfImage == NoFinder /\ InitImage /\ NoResize /\ NoGenerator

SpecImage == InitOfImage /\ [][NextImage]_vars

(***************************************************************************)
(* PrimeImage.resize_for_pixel_limit of base.py.                           *)
(*                                                                         *)
(* With y1 = int(y * 0.45) and scale_factor = sqrt(x * y1 / max_pixels),   *)
(* x / scale_factor is sqrt(x * max_pixels / y1) and y1 / scale_factor is  *)
(* sqrt(y1 * max_pixels / x).  int() of a quotient num / den under a root  *)
(* is the largest k with k * k * den <= num; where the root is an integer  *)
(* k, the floating-point quotient comes out as k or just below it, and     *)
(* int() gives k or k - 1.                                                 *)
(***************************************************************************)
\* GLYPH_ASPECT_RATIO = 0.45, in hundredths
GLYPH_ASPECT_RATIO_PCT == 45

\* int(y * GLYPH_ASPECT_RATIO)
Squash(h) == (h * GLYPH_ASPECT_RATIO_PCT) \div 100

FloorRoot(num, den) ==
    CHOOSE k \in 0 .. num : k * k * den <= num /\ (k + 1) * (k + 1) * den > num

ScaledRounded(num, den) ==
    LET k == FloorRoot(num, den)
    IN IF k * k * den = num THEN {k} ELSE {k + 1}

\* the values int(sqrt(num / den)) can take in floating point
Scaled(num, den) ==
    LET k == FloorRoot(num, den)
    IN IF k * k * den = num /\ k > 0 THEN {k - 1, k} ELSE {k}

Dims == 1 .. MaxDim

InitResize ==
    /\ x \in Dims
    /\ y \in Dims
    /\ max_pixels \in Dims
    /\ x_scaled = 0
    /\ y_scaled = 0
    /\ rpc = "input"

\* the division by scale_factor raises ZeroDivisionError when y1 is 0;
\* Image.resize raises ValueError unless both sides are at least 1
resize_for_pixel_limit ==
    /\ rpc = "input"
    /\ LET y1 == Squash(y)
       IN IF y1 = 0
          THEN /\ rpc' = "ZeroDivisionError"
               /\ UNCHANGED <<x_scaled, y_scaled>>
          ELSE /\ x_scaled' \in Scaled(x * max_pixels, y1)
               /\ y_scaled' \in Scaled(y1 * max_pixels, x)
               /\ rpc' = IF x_scaled' < 1 \/ y_scaled' < 1
                         THEN "ValueError" ELSE "resized"
    /\ UNCHANGED <<x, y, max_pixels, finderVars, imageVars, genVars>>

NextResize == resize_for_pixel_limit

InitOfResize == NoFinder /\ NoImage /\ InitResize /\ NoGenerator

SpecResize == InitOfResize /\ [][NextResize]_vars

(***************************************************************************)
(* Properties of the search.                                               *)
(***************************************************************************)
Range(q) == {q[i] : i \in 1 .. Len(q)}

Returned1 == pc = "done" /\ n_workers >= 1

\* C1: for any start >= 1 and any worker count >= 1, the value returned by
\* find_next_prime is the smallest prime >= start: it is >= start, it is
\* prime, and no prime lies in start .. returned - 1.
C1_SmallestPrime ==
    Returned1 =>
        /\ ret >= value
        /\ isprime(ret)
        /\ \A q \in value .. (ret - 1) : ~isprime(q)

\* C2: whenever find_next_prime returns, the returned value is a candidate
\* that was passed to the oracle, that the oracle reported prime, and that is
\* >= start.
C2_ReturnedIsTestedPrime ==
    pc = "done" =>
        /\ ret \in tested
        /\ ret \in Range(yielded)
        /\ isprime(ret)
        /\ ret >= value

\* C2 witness: a search with two workers has returned a value other than its
\* start.
C2_Witness == pc = "done" /\ n_workers = 2 /\ ret # value /\ rounds = 1

\* C3: two runs of find_next_prime on the same start return the same value,
\* whatever their worker counts and schedules.
C3_SameResult == (pc = "done" /\ run = 2) => ret = prev

\* C4: when the collected results hold more than one prime, find_next_prime
\* returns the smallest of them.
C4_ReturnsMinimum ==
    (pc = "done" /\ Cardinality(FirstResults(results)) > 1) =>
        \A r \in FirstResults(results) : ret <= r

\* C5: if start is prime and start mod 6 is 1 or 5, find_next_prime returns
\* start after exactly one round, and the oracle was called on start alone.
C5_StartPrimeImmediate ==
    (Returned1 /\ isprime(value) /\ value % 6 \in {1, 5}) =>
        /\ ret = value
        /\ rounds = 1
        /\ tested = {value}

\* C6: every candidate handed to a worker or passed to the oracle is >= start
\* and is 1 or 5 mod 6, whatever the residue of start.
C6_CandidatesCongruent ==
    \A c \in tested \cup Range(batch) \cup Range(yielded) :
        c >= value /\ c % 6 \in {1, 5}

\* C6 witness: a start that is 0, 2, 3 or 4 mod 6, with a candidate tested.
C6_Witness == value % 6 \in {0, 2, 3, 4} /\ tested # {} /\ pc = "starmap"

\* C7: prime_candidates yields a strictly increasing sequence; its first
\* element is the smallest c >= start that is 1 or 5 mod 6, and each next
\* element is the smallest such integer above the previous one.
C7_GeneratorSequence ==
    /\ yielded # <<>> =>
        /\ yielded[1] >= value
        /\ yielded[1] % 6 \in {1, 5}
        /\ \A m \in value .. (yielded[1] - 1) : m % 6 \notin {1, 5}
    /\ \A i \in 1 .. (Len(yielded) - 1) :
        /\ yielded[i] < yielded[i + 1]
        /\ yielded[i + 1] % 6 \in {1, 5}
        /\ \A m \in (yielded[i] + 1) .. (yielded[i + 1] - 1) : m % 6 \notin {1, 5}

\* C7 witness: the generator was resumed for a second batch.
C7_Witness == Len(yielded) > expected_n_primality_tests /\ rounds = 2

\* C10: a finder whose worker count is below 1 is rejected before anything is
\* done: find_next_prime ends in an error with no pool, no manager, no flag,
\* no candidate generated, dispatched or tested, and nothing returned.
C10_InvalidWorkersRejected ==
    (run >= 1 /\ n_workers < 1) =>
        /\ pc \in {"new", "error"}
        /\ pool = "none"
        /\ ~manager
        /\ ~found_prime
        /\ yielded = <<>>
        /\ batch = <<>>
        /\ tested = {}
        /\ results = {}
        /\ ret = None

\* C10 witness: find_next_prime was called on such a finder and raised.
C10_Witness == pc = "error" /\ n_workers < 1

(***************************************************************************)
(* Properties of PrimeImage.                                               *)
(***************************************************************************)
\* C8 as stated: the prime produced by PrimeImage is the smallest prime p with
\* p >= N for the image number N, so that p = N whenever N is prime.
C8_SmallestPrimeAtLeast ==
    /\ flag_primed =>
        /\ isprime(prime)
        /\ prime >= NUMBER
        /\ \A q \in NUMBER .. (prime - 1) : ~isprime(q)
    /\ next_prime # 0 =>
        /\ isprime(next_prime)
        /\ next_prime >= raw_image_number
        /\ \A q \in raw_image_number .. (next_prime - 1) : ~isprime(q)

\* C8 amended: the prime produced by PrimeImage (find_next_prime of
\* primify_base.py, get_prime of base.py) is the smallest prime strictly
\* greater than the image number N: p > N, p is prime, and no prime lies in
\* N + 1 .. p - 1; when N is itself prime the result is the prime after it.
C8_SmallestPrimeAbove ==
    /\ flag_primed =>
        /\ isprime(prime)
        /\ prime > NUMBER
        /\ \A q \in (NUMBER + 1) .. (prime - 1) : ~isprime(q)
    /\ next_prime # 0 =>
        /\ isprime(next_prime)
        /\ next_prime > raw_image_number
        /\ \A q \in (raw_image_number + 1) .. (next_prime - 1) : ~isprime(q)

\* C8 witness: both classes have produced their prime from an image number
\* that is itself prime.
C8_Witness ==
    /\ flag_primed /\ isprime(NUMBER)
    /\ next_prime # 0 /\ isprime(raw_image_number)

\* C9 as stated: the image resize_for_pixel_limit returns has a pixel count
\* with 0.8 * max_pixels <= width * height <= max_pixels.
C9_PixelCountWithinFifth ==
    rpc = "resized" =>
        /\ 8 * max_pixels <= 10 * (x_scaled * y_scaled)
        /\ x_scaled * y_scaled <= max_pixels

\* C9 amended: whenever resize_for_pixel_limit computes a size (that is,
\* whenever int(0.45 * y) >= 1; otherwise it raises ZeroDivisionError), the
\* pixel count is at most max_pixels and (width + 2) * (height + 2) exceeds
\* max_pixels; it can be below 0.8 * max_pixels.
C9_PixelCountAtMostLimit ==
    rpc \in {"resized", "ValueError"} =>
        /\ x_scaled * y_scaled <= max_pixels
        /\ (x_scaled + 2) * (y_scaled + 2) > max_pixels

\* C9 witness: an image was returned whose pixel count is below 0.8 of the
\* limit.
C9_Witness ==
    /\ rpc = "resized"
    /\ 10 * (x_scaled * y_scaled) < 8 * max_pixels

(***************************************************************************)
(* Properties of the rounds of the search.                                 *)
(***************************************************************************)
\* a round has just returned to the loop condition
RoundReturned == pc = "loop" /\ rounds >= 1

\* C11 as stated: when a round returns, every candidate dispatched in it has
\* been tested by the oracle, whatever the state of the flag.
C11_AllTested == RoundReturned => Range(batch) \subseteq tested

\* C11 amended: when a round returns, the call of every candidate dispatched
\* in it has returned; each candidate was either tested by the oracle or
\* skipped, with result None, by a call that read the flag set; in a round
\* that ends with the flag unset every candidate was tested.
C11_AllTestedOrSkipped ==
    RoundReturned =>
        /\ finished = 1 .. Len(batch)
        /\ \A i \in 1 .. Len(batch) :
               \/ batch[i] \in tested
               \/ result[i] = None /\ found_prime
        /\ ~found_prime => Range(batch) \subseteq tested

\* C11 witness: a round has returned with a candidate skipped, and another
\* with the flag unset and all its candidates tested.
C11_Witness ==
    /\ RoundReturned
    /\ rounds = 2
    /\ \E i \in 1 .. Len(batch) : batch[i] \notin tested
    /\ \A i \in 1 .. expected_n_primality_tests : yielded[i] \in tested

\* the candidates for which the oracle has returned true
Hits == {c \in tested : isprime(c) /\ c \notin faulty}

\* C12: the flag never makes a round return before all its worker tasks have
\* completed and never loses a completed result: every candidate for which
\* the oracle returned true is in `results` when the selection runs, and the
\* pool is terminated only after the round's starmap has returned.
C12_FlagLosesNothing ==
    /\ pc \in {"loop", "select", "done"} =>
        /\ finished = 1 .. Len(batch)
        /\ \A w \in Workers : wphase[w] = "idle"
        /\ Hits \subseteq results
    /\ pool = "terminated" =>
        /\ pc \in {"select", "done", "raised"}
        /\ finished = 1 .. Len(batch)
        /\ \A w \in Workers : wphase[w] = "idle"

\* C12 witness: the selection is about to run on two collected primes.
C12_Witness ==
    /\ pc = "select"
    /\ pool = "terminated"
    /\ Cardinality(Hits) = 2

\* C13: rounds are strictly sequential: a batch is dispatched only when no
\* task of the batch before it is pending or running, and only after the
\* coordinator has read the flag (unset) after that batch.
C13_RoundsSequential ==
    [][rounds' = rounds + 1 =>
          /\ pc = "loop"
          /\ ~found_prime
          /\ finished = 1 .. Len(batch)
          /\ nextChunk > NChunks(Len(batch), n_workers)
          /\ \A w \in Workers : wphase[w] = "idle" /\ wchunk[w] = 0]_vars

\* C13 witness: two workers are running tasks of a second round.
C13_Witness ==
    /\ rounds = 2
    /\ pc = "starmap"
    /\ \A w \in 1 .. 2 : wphase[w] # "idle"

\* the rounds dispatched so far, as segments of the candidate stream
Segment(k) ==
    SubSeq(yielded, (k - 1) * expected_n_primality_tests + 1,
           k * expected_n_primality_tests)

HasPrime(q) == \E i \in 1 .. Len(q) : isprime(q[i])

\* C14: the value returned belongs to the first batch that holds a prime:
\* after a round whose batch holds a prime the flag is set, no later batch is
\* dispatched, and the returned value is a candidate of that batch.
C14_FirstBatchWithPrime ==
    /\ (RoundReturned /\ HasPrime(batch)) => found_prime
    /\ \A k \in 1 .. (rounds - 1) : ~HasPrime(Segment(k))
    /\ pc = "done" =>
        /\ HasPrime(Segment(rounds))
        /\ ret \in Range(Segment(rounds))

\* C14 witness: two workers returned a value of the second batch, the first
\* batch holding no prime.
C14_Witness == pc = "done" /\ rounds = 2 /\ n_workers = 2 /\ ret \in Range(batch)

\* C15: each round pulls exactly expected_n_primality_tests (>= 10) candidates
\* from the one candidate stream; successive rounds take consecutive segments
\* of it, none dispatched twice and none skipped; each candidate is run by at
\* most one worker task, and a round has one result entry per candidate.
C15_BatchesPartitionStream ==
    run >= 1 =>
        /\ expected_n_primality_tests >= MinBatch
        /\ Len(yielded) = rounds * expected_n_primality_tests
        /\ rounds >= 1 =>
            /\ batch = Segment(rounds)
            /\ Len(batch) = expected_n_primality_tests
            /\ Len(result) = Len(batch)
        /\ yielded # <<>> =>
               \A m \in value .. (yielded[1] - 1) : m % 6 \notin {1, 5}
        /\ \A i \in 1 .. (Len(yielded) - 1) :
               /\ yielded[i] < yielded[i + 1]
               /\ \A m \in (yielded[i] + 1) .. (yielded[i + 1] - 1) :
                      m % 6 \notin {1, 5}
        /\ \A v, w \in Workers :
               (v # w /\ wphase[v] # "idle" /\ wphase[w] # "idle") =>
                   /\ wchunk[v] # wchunk[w]
                   /\ wpos[v] # wpos[w]
        /\ \A w \in Workers :
               wphase[w] # "idle" =>
                   /\ wchunk[w] < nextChunk
                   /\ wpos[w] \notin finished
                   /\ wpos[w] >= ChunkFirst(wchunk[w], Len(batch), n_workers)
                   /\ wpos[w] <= ChunkLast(wchunk[w], Len(batch), n_workers)

\* C15 witness: a second round of eleven candidates has been dispatched.
C15_Witness ==
    /\ rounds = 2
    /\ expected_n_primality_tests > MinBatch
    /\ pc = "starmap"

(***************************************************************************)
(* Properties of the search when the oracle raises.                        *)
(***************************************************************************)
\* the oracle has been called on a candidate on which it raises
OracleFailed == tested \cap faulty # {}

\* C16: if the oracle raises for a dispatched candidate, the failure is fatal
\* to the batch in flight and reaches the caller: nothing of that batch is
\* collected (the candidate is not recorded as non-prime), no later batch is
\* dispatched and no prime is returned.
C16_OracleFailureFatal ==
    OracleFailed =>
        /\ raised
        /\ pc \in {"starmap", "raised"}
        /\ ret = None
        /\ tested \cap faulty \subseteq Range(batch)
        /\ batch = Segment(rounds)
        /\ Len(yielded) = rounds * expected_n_primality_tests
        /\ results \subseteq {None}
        /\ rounds = 1 => results = {}

\* C16 witness: starmap raised in a round in which a worker had found a prime.
C16_Witness == pc = "raised" /\ found_prime /\ OracleFailed /\ n_workers = 2

(***************************************************************************)
(* Termination of the search.                                              *)
(***************************************************************************)
\* C17: under fair scheduling a search entered with a valid pool size
\* eventually returns; a round is dispatched only while the flag is unset; at
\* DONE the flag is set and the last round is the first one whose batch holds a
\* prime; and once an outcome is produced it is not produced again or changed
\* for that request.
C17_EventuallyReturns ==
    /\ (pc = "new" /\ n_workers >= 1) ~> (pc = "done")
    /\ [][rounds' = rounds + 1 => ~found_prime]_vars
    /\ [](pc = "done" =>
            /\ found_prime
            /\ HasPrime(Segment(rounds))
            /\ \A k \in 1 .. (rounds - 1) : ~HasPrime(Segment(k)))
    /\ [][ret # None => (ret' = ret \/ run' = run + 1)]_vars
    /\ [][ret' # ret => (pc = "select" /\ pc' = "done") \/ run' = run + 1]_vars

\* C17 witness: a search that needed a second round has returned.
C17_Witness == pc = "done" /\ rounds = 2 /\ ret = 1361 /\ run = 1

(***************************************************************************)
(* The candidate generator of primify/base.py.                             *)
(***************************************************************************)
\* C18: the values drawn from the generator of primify/base.py start at the
\* smallest c >= start with c mod 6 in {1, 5} and each is greater than the one
\* before it.
C18_BaseStrictlyIncreasing ==
    /\ base_yielded # <<>> =>
         /\ base_yielded[1] >= base_value
         /\ IsCandidate(base_yielded[1])
         /\ \A c \in base_value .. (base_yielded[1] - 1) : ~IsCandidate(c)
    /\ \A i \in 1 .. (Len(base_yielded) - 1) :
         base_yielded[i] < base_yielded[i + 1]

(***************************************************************************)
(* What the mod-6 filter leaves out.                                       *)
(***************************************************************************)
\* C19: the filter drops only composites: every prime from the start value up
\* to the last candidate produced so far is itself one of the candidates
\* produced, the primes 2 and 3 included.
C19_NoPrimeFiltered ==
    yielded # <<>> =>
        \A p \in value .. yielded[Len(yielded)] :
            isprime(p) => p \in Range(yielded)

(***************************************************************************)
(* The search with a single worker.                                        *)
(***************************************************************************)
\* C20: with one worker the candidates are tested one at a time in increasing
\* order (the tested candidates are an initial stretch of the stream and at
\* most one call is in progress), the oracle answers true for at most one
\* candidate, the results hold at most one value other than None, and the
\* value returned is the smallest prime c >= start with c mod 6 in {1, 5}.
C20_SingleWorkerSmallest ==
    (n_workers = 1 /\ run >= 1) =>
        /\ \A i \in 1 .. Len(yielded) :
             yielded[i] \in tested => \A j \in 1 .. i : yielded[j] \in tested
        /\ \A w \in Workers : w # 1 => wphase[w] = "idle"
        /\ Cardinality(Hits) <= 1
        /\ Cardinality(FirstResults(results)) <= 1
        /\ pc = "done" =>
             /\ isprime(ret)
             /\ ret >= value
             /\ IsCandidate(ret)
             /\ \A q \in value .. (ret - 1) : ~(IsCandidate(q) /\ isprime(q))

\* C20 witness: a single worker tested the eleven composites of the first
\* batch and then the prime, which was returned.
C20_Witness ==
    /\ n_workers = 1
    /\ pc = "done"
    /\ ret = 60077
    /\ Cardinality(tested) = 12
    /\ FirstResults(results) = {60077}

(***************************************************************************)
(* The sentinel of find_next_prime.                                        *)
(***************************************************************************)
\* the batch loop has seen the flag set, or is about to
LoopExited == pc \in {"select", "done"} \/ (pc = "loop" /\ found_prime)

\* C21: find_next_prime never returns -1: whenever the batch loop has exited
\* because the flag was seen set, the results hold a value other than None,
\* whatever the number of workers and the interleaving.
C21_NeverSentinel ==
    /\ ret # NotFound
    /\ LoopExited => FirstResults(results) # {}
    /\ pc = "done" => ret \in FirstResults(results)

\* C21 witness: the loop has exited with two workers having each found a prime.
C21_Witness ==
    /\ pc = "select"
    /\ n_workers = 2
    /\ Cardinality(FirstResults(results)) = 2
    /\ None \in results

(***************************************************************************)
(* What repeated calls on one PrimeImage leave alone.                      *)
(***************************************************************************)
\* C22: whatever methods of one PrimeImage are called and in whatever order,
\* the image is resized at most once and enhanced at most once, NUMBER (with
\* the converted data and the width) and prime keep the value they were first
\* given, and flag_primed implies flag_numberised.
C22_SetOnce ==
    /\ [](n_resized <= 1 /\ n_enhanced <= 1)
    /\ [](flag_primed => flag_numberised)
    /\ [](flag_numberised <=> n_resized = 1)
    /\ [][flag_numberised =>
            /\ flag_numberised'
            /\ NUMBER' = NUMBER
            /\ CONVERTED_IMAGE_DATA' = CONVERTED_IMAGE_DATA
            /\ width' = width]_vars
    /\ [][flag_primed => flag_primed' /\ prime' = prime]_vars

\* C22 witness: numberise was called again on an object whose prime had
\* already been written out.
C22_Witness ==
    /\ last_call = "numberise"
    /\ flag_primed
    /\ written # <<>>
    /\ n_resized = 1
    /\ n_enhanced = 1

=============================================================================
